---- MODULE Spec2Model ----
(***************************************************************************)
(* Flurion's Python Bindings (src/src/main.rs): a single-threaded loopback  *)
(* HTTP helper.  main accepts one connection at a time; handle_connection   *)
(* reads a request, routes it, extracts a command from a JSON-shaped body,  *)
(* writes it to the scratch file, runs the interpreter on it and answers    *)
(* through send_response.                                                   *)
(*                                                                         *)
(* Text is modelled as a sequence of characters, each a one-character       *)
(* string; the tokens "U+00E9" and "U+FFFD" stand for one non-ASCII         *)
(* character each.  Bytes read from a socket or a pipe are sequences of     *)
(* byte tokens: an ASCII byte is written as its character, the others as    *)
(* "0xC3", "0xA9", "0xFF", ...                                              *)
(***************************************************************************)
EXTENDS Integers, Sequences, FiniteSets, TLC

VARIABLES
    pc,             \* position of the single thread (main loop / handle_connection / send_response)
    conns,          \* connections accepted so far
    exitCause,      \* "none" while the process runs, else why it ended
    request_line,   \* handle_connection: the trimmed request line (empty before it is read)
    content_length, \* handle_connection: the declared body length
    clHeader,       \* [seen, text]: text after the first ':' of the last content-length header read
    nHeaders,       \* header lines read on this connection
    buffer,         \* handle_connection: the body bytes read
    extracted,      \* [tag, val]: result of extract_command on this connection ("NotCalled" before)
    scratch,        \* [exists, content]: the file <temp>/fpb/script.py
    wrote,          \* the scratch file was written on this connection
    launched,       \* the interpreter was launched on this connection
    calls,          \* send_response calls made on this connection
    resp,           \* arguments and computed headers of the current send_response call
    wire,           \* the parts send_response has written to the socket, in order
    sendResult,     \* "none" | "Ok" | "Err": what send_response returned
    route,          \* "none" | "read_error" | "static" | "not_found" | "interpreter": branch taken at main.rs:46-75
    headersDone,    \* the header loop ended at its break (main.rs:85-87)
    stream,         \* "open" | "eof" | "error": what the reads of this connection have met
    scratchAtAccept, \* the scratch file as it was when this connection was accepted
    output,         \* what Command::output returned on this connection (called = FALSE before)
    fsFailed,       \* "none", or the filesystem step of main.rs:129-152 that failed on this connection
    runs            \* Command::output calls made on this connection

vars == <<pc, conns, exitCause, request_line, content_length, clHeader, nHeaders,
          buffer, extracted, scratch, wrote, launched, calls, resp, wire, sendResult,
          route, headersDone, stream, scratchAtAccept, output, fsFailed, runs>>

----------------------------------------------------------------------------
(* String literals of the source                                           *)

\* main.rs:55  request_line.starts_with("GET / HTTP/1.1")
GetPrefix == <<"G", "E", "T", " ", "/", " ", "H", "T", "T", "P", "/", "1", ".", "1">>
\* main.rs:71  request_line.starts_with("POST /api/interpreter HTTP/1.1")
PostPrefix ==
    <<"P", "O", "S", "T", " ", "/", "a", "p", "i", "/", "i", "n", "t", "e", "r", "p",
      "r", "e", "t", "e", "r", " ", "H", "T", "T", "P", "/", "1", ".", "1">>
\* main.rs:56-66  the static page (264 bytes, all ASCII)
html ==
    <<"<", "!", "D", "O", "C", "T", "Y", "P", "E", " ", "h", "t", "m", "l", ">", "\n",
      "<", "h", "t", "m", "l", " ", "l", "a", "n", "g", "=", "\"", "e", "n", "\"", ">",
      "\n", "<", "h", "e", "a", "d", ">", "\n", " ", " ", " ", " ", "<", "m", "e", "t",
      "a", " ", "c", "h", "a", "r", "s", "e", "t", "=", "\"", "U", "T", "F", "-", "8",
      "\"", ">", "\n", " ", " ", " ", " ", "<", "m", "e", "t", "a", " ", "n", "a", "m",
      "e", "=", "\"", "v", "i", "e", "w", "p", "o", "r", "t", "\"", " ", "c", "o", "n",
      "t", "e", "n", "t", "=", "\"", "w", "i", "d", "t", "h", "=", "d", "e", "v", "i",
      "c", "e", "-", "w", "i", "d", "t", "h", ",", " ", "i", "n", "i", "t", "i", "a",
      "l", "-", "s", "c", "a", "l", "e", "=", "1", ".", "0", "\"", ">", "\n", " ", " ",
      " ", " ", "<", "t", "i", "t", "l", "e", ">", "F", "l", "u", "r", "i", "o", "n",
      "'", "s", " ", "P", "y", "t", "h", "o", "n", " ", "B", "i", "n", "d", "i", "n",
      "g", "s", " ", "f", "o", "r", " ", "M", "i", "n", "e", "P", "y", " ", "m", "o",
      "d", "<", "/", "t", "i", "t", "l", "e", ">", "\n", "<", "/", "h", "e", "a", "d",
      ">", "\n", "<", "b", "o", "d", "y", ">", "\n", " ", " ", " ", " ", "<", "h", "1",
      ">", "H", "e", "l", "p", "e", "r", " ", "i", "s", " ", "r", "u", "n", "n", "i",
      "n", "g", ".", "<", "/", "h", "1", ">", "\n", "<", "/", "b", "o", "d", "y", ">",
      "\n", "<", "/", "h", "t", "m", "l", ">">>
\* main.rs:48,82,100,131,144,150  body of every 500 sent before the interpreter runs
InternalServerError ==
    <<"I", "n", "t", "e", "r", "n", "a", "l", " ", "S", "e", "r", "v", "e", "r", " ",
      "E", "r", "r", "o", "r">>
\* main.rs:73
NotFound == <<"N", "o", "t", " ", "F", "o", "u", "n", "d">>
\* main.rs:106
MissingBody ==
    <<"B", "a", "d", " ", "R", "e", "q", "u", "e", "s", "t", ":", " ", "M", "i", "s",
      "s", "i", "n", "g", " ", "b", "o", "d", "y">>
\* main.rs:121
InvalidJson ==
    <<"B", "a", "d", " ", "R", "e", "q", "u", "e", "s", "t", ":", " ", "I", "n", "v",
      "a", "l", "i", "d", " ", "J", "S", "O", "N">>
\* main.rs:177  format!("Failed to execute python: {}", e)
FailedToExecute ==
    <<"F", "a", "i", "l", "e", "d", " ", "t", "o", " ", "e", "x", "e", "c", "u", "t",
      "e", " ", "p", "y", "t", "h", "o", "n", ":", " ">>
\* main.rs:170  format!("Error: {}\nOutput: {}", stderr, stdout)
ErrorLabel == <<"E", "r", "r", "o", "r", ":", " ">>
\* main.rs:170
OutputLabel == <<"\n", "O", "u", "t", "p", "u", "t", ":", " ">>
\* main.rs:197  body.contains("<!DOCTYPE html")
DoctypeMarker == <<"<", "!", "D", "O", "C", "T", "Y", "P", "E", " ", "h", "t", "m", "l">>
\* main.rs:231  starts_with("\"command\":")
CommandKey == <<"\"", "c", "o", "m", "m", "a", "n", "d", "\"", ":">>
\* main.rs:88  starts_with("content-length:")
ContentLengthKey == <<"c", "o", "n", "t", "e", "n", "t", "-", "l", "e", "n", "g", "t", "h", ":">>
\* main.rs:196  format!("HTTP/1.1 {} {}\r\n", status, status_text)
Http11 == <<"H", "T", "T", "P", "/", "1", ".", "1", " ">>
\* main.rs:196,202,203
CRLF == <<"\r", "\n">>
\* main.rs:188
StatusOk == <<"O", "K">>
\* main.rs:194
StatusBadRequest == <<"B", "a", "d", " ", "R", "e", "q", "u", "e", "s", "t">>
\* main.rs:198
ContentTypeHtml ==
    <<"C", "o", "n", "t", "e", "n", "t", "-", "T", "y", "p", "e", ":", " ", "t", "e",
      "x", "t", "/", "h", "t", "m", "l", "\r", "\n">>
\* main.rs:200
ContentTypePlain ==
    <<"C", "o", "n", "t", "e", "n", "t", "-", "T", "y", "p", "e", ":", " ", "t", "e",
      "x", "t", "/", "p", "l", "a", "i", "n", "\r", "\n">>
\* main.rs:202  format!("Content-Length: {}\r\n", body.len())
ContentLengthLabel == <<"C", "o", "n", "t", "e", "n", "t", "-", "L", "e", "n", "g", "t", "h", ":", " ">>

----------------------------------------------------------------------------
(* Text primitives of the standard library, as the source uses them        *)

Min(S) == CHOOSE x \in S : \A y \in S : x <= y
Max(S) == CHOOSE x \in S : \A y \in S : x >= y

\* the concatenation of a sequence of sequences (by halves, to keep the
\* evaluation shallow on long texts)
Concat(parts) ==
    LET RECURSIVE cat(_)
        cat(ps) == IF ps = <<>> THEN <<>>
                   ELSE IF Len(ps) = 1 THEN ps[1]
                   ELSE LET h == Len(ps) \div 2
                        IN cat(SubSeq(ps, 1, h)) \o cat(SubSeq(ps, h + 1, Len(ps)))
    IN cat(parts)

\* char::is_whitespace for the characters of the model (str::trim, main.rs:51,85,89,226)
IsWhitespace(c) == c \in {" ", "\t", "\n", "\r"}

\* str::trim: drops leading and trailing whitespace
Trim(s) ==
    LET keep == {i \in 1..Len(s) : ~IsWhitespace(s[i])}
    IN IF keep = {} THEN <<>> ELSE SubSeq(s, Min(keep), Max(keep))

\* str::starts_with / ends_with / contains
StartsWith(s, p) == Len(s) >= Len(p) /\ SubSeq(s, 1, Len(p)) = p
EndsWith(s, p) == Len(s) >= Len(p) /\ SubSeq(s, Len(s) - Len(p) + 1, Len(s)) = p
Contains(s, p) == \E i \in 1..(Len(s) - Len(p) + 1) : SubSeq(s, i, i + Len(p) - 1) = p

\* str::find(c): the 0-based index of the first c, -1 for None
Find(s, c) ==
    LET hits == {i \in 1..Len(s) : s[i] = c}
    IN IF hits = {} THEN -1 ELSE Min(hits) - 1

\* &s[from..to], 0-based and half-open: panics when from > to or to > len.
\* Every slice of the source starts or ends next to an ASCII character, so
\* character indices and byte indices cut at the same places.
Slice(s, from, to) ==
    IF from > to \/ to > Len(s)
    THEN [ok |-> FALSE, val |-> <<>>]
    ELSE [ok |-> TRUE, val |-> SubSeq(s, from + 1, to)]

\* char::to_lowercase for the letters of the model (main.rs:88)
LowerChar(c) ==
    CASE c = "C" -> "c" [] c = "O" -> "o" [] c = "N" -> "n" [] c = "T" -> "t"
      [] c = "E" -> "e" [] c = "L" -> "l" [] c = "G" -> "g" [] c = "H" -> "h"
      [] c = "S" -> "s" [] OTHER -> c
ToLowercase(s) == [i \in 1..Len(s) |-> LowerChar(s[i])]

\* s.split(':').nth(1): the text between the first and the second ':'
\* (to the end when there is no second one); [ok |-> FALSE] for None
SplitNth1(s) ==
    LET first == Find(s, ":")
        rest == SubSeq(s, first + 2, Len(s))
        second == Find(rest, ":")
    IN IF first = -1 THEN [ok |-> FALSE, val |-> <<>>]
       ELSE [ok |-> TRUE,
             val |-> IF second = -1 THEN rest ELSE SubSeq(rest, 1, second)]

Digits == <<"0", "1", "2", "3", "4", "5", "6", "7", "8", "9">>
IsDigit(c) == \E d \in 1..10 : Digits[d] = c
DigitValue(c) == (CHOOSE d \in 1..10 : Digits[d] = c) - 1

\* str::parse::<usize>: an optional '+', then one or more decimal digits and
\* nothing else.  (Overflow of usize is an Err too; the header values of the
\* model are far below it.)
ParseUsize(s) ==
    LET ds == IF Len(s) > 0 /\ s[1] = "+" THEN Tail(s) ELSE s
        RECURSIVE val(_)
        val(t) == IF t = <<>> THEN 0
                  ELSE 10 * val(SubSeq(t, 1, Len(t) - 1)) + DigitValue(t[Len(t)])
    IN IF ds # <<>> /\ \A i \in 1..Len(ds) : IsDigit(ds[i])
       THEN [ok |-> TRUE, val |-> val(ds)]
       ELSE [ok |-> FALSE, val |-> 0]

\* format!("{}", n) for an unsigned n
FormatUsize(n) ==
    LET RECURSIVE fmt(_)
        fmt(k) == IF k < 10 THEN <<Digits[k + 1]>>
                  ELSE Append(fmt(k \div 10), Digits[(k % 10) + 1])
    IN fmt(n)

\* The UTF-8 encoding of one character (str::as_bytes, str::len)
Utf8Char(c) ==
    CASE c = "U+00E9" -> <<"0xC3", "0xA9">>
      [] c = "U+FFFD" -> <<"0xEF", "0xBF", "0xBD">>
      [] OTHER -> <<c>>
AsBytes(s) == Concat([i \in 1..Len(s) |-> Utf8Char(s[i])])

\* str::len: the length in bytes
StrLen(s) ==
    LET RECURSIVE sum(_)
        sum(t) == IF t = <<>> THEN 0
                  ELSE IF Len(t) = 1 THEN Len(Utf8Char(t[1]))
                  ELSE LET h == Len(t) \div 2
                       IN sum(SubSeq(t, 1, h)) + sum(SubSeq(t, h + 1, Len(t)))
    IN sum(s)

NonAsciiBytes == {"0xC3", "0xA9", "0xFF", "0xEF", "0xBF", "0xBD"}

\* String::from_utf8_lossy: valid sequences decode to their character, every
\* byte that starts no valid sequence becomes U+FFFD (main.rs:110,165,166)
FromUtf8Lossy(bytes) ==
    LET RECURSIVE dec(_)
        dec(b) ==
            IF b = <<>> THEN <<>>
            ELSE IF Len(b) >= 2 /\ b[1] = "0xC3" /\ b[2] = "0xA9"
                 THEN <<"U+00E9">> \o dec(SubSeq(b, 3, Len(b)))
            ELSE IF Len(b) >= 3 /\ b[1] = "0xEF" /\ b[2] = "0xBF" /\ b[3] = "0xBD"
                 THEN <<"U+FFFD">> \o dec(SubSeq(b, 4, Len(b)))
            ELSE IF b[1] \in NonAsciiBytes
                 THEN <<"U+FFFD">> \o dec(Tail(b))
            ELSE <<b[1]>> \o dec(Tail(b))
    IN dec(bytes)

----------------------------------------------------------------------------
(* extract_command (main.rs:225-241)                                       *)

None == [tag |-> "None", val |-> <<>>]
Some(v) == [tag |-> "Some", val |-> v]
Panic == [tag |-> "Panic", val |-> <<>>]
NotCalled == [tag |-> "NotCalled", val |-> <<>>]

\* main.rs:234-235: everything after the first ':' of inner, trimmed
\* (called only when inner holds a ':')
\* (variant: the value cut at a second ':', as split(':').nth(1) would)
ValueOfSplit(inner) == Trim(SplitNth1(inner).val)
ValueOf(inner) ==
    LET value_start == Find(inner, ":") + 1
    IN Trim(SubSeq(inner, value_start + 1, Len(inner)))

\* main.rs:236-240: strip one pair of surrounding double quotes
Unquote(value) ==
    IF StartsWith(value, <<"\"">>) /\ EndsWith(value, <<"\"">>)
    THEN LET s == Slice(value, 1, Len(value) - 1)
         IN IF s.ok THEN Some(s.val) ELSE Panic
    ELSE Some(value)

\* (variant: the key test of main.rs:231 left out)
ExtractCommandNoKeyCheck(body) ==
    LET trimmed == Trim(body)
    IN IF ~StartsWith(trimmed, <<"{">>) \/ ~EndsWith(trimmed, <<"}">>) THEN None
       ELSE LET inner == SubSeq(trimmed, 2, Len(trimmed) - 1)
            IN IF Find(inner, ":") = -1 THEN Some(Trim(inner))
               ELSE Unquote(ValueOf(inner))
ExtractCommand(body) ==
    LET trimmed == Trim(body)
    IN IF ~StartsWith(trimmed, <<"{">>) \/ ~EndsWith(trimmed, <<"}">>) THEN None
       ELSE LET inner == Slice(trimmed, 1, Len(trimmed) - 1)
            IN IF ~inner.ok THEN Panic
               ELSE IF ~StartsWith(Trim(inner.val), CommandKey) THEN None
               ELSE IF Find(inner.val, ":") = -1 THEN None
               ELSE Unquote(ValueOf(inner.val))

----------------------------------------------------------------------------
(* send_response (main.rs:186-223): what it computes before writing        *)

\* (variant: the 404 arm of main.rs:187-195 missing)
StatusTextNoNotFound(status) ==
    IF status = 200 THEN StatusOk
    ELSE IF status = 500 THEN InternalServerError
    ELSE StatusBadRequest
StatusText(status) ==
    IF status = 200 THEN StatusOk
    ELSE IF status = 500 THEN InternalServerError
    ELSE IF status = 404 THEN NotFound
    ELSE StatusBadRequest

StatusLine(status) == Concat(<<Http11, FormatUsize(status), <<" ">>, StatusText(status), CRLF>>)

\* (variant: the status test of main.rs:197 left out)
ContentTypeByBody(status, body) ==
    IF Contains(body, DoctypeMarker) THEN ContentTypeHtml ELSE ContentTypePlain
ContentType(status, body) ==
    IF status = 200 /\ Contains(body, DoctypeMarker)
    THEN ContentTypeHtml
    ELSE ContentTypePlain

\* main.rs:202: body.len(), in bytes
\* (variant: the length in characters, body.chars().count())
BodyLenChars(body) == Len(body)
BodyLen(body) == StrLen(body)

ContentLengthLine(body) == Concat(<<ContentLengthLabel, FormatUsize(BodyLen(body)), CRLF>>)

Headers(status, body) == ContentType(status, body) \o CRLF

\* the four write_all calls, in order (main.rs:205-220)
\* (variant: the headers written before the content length)
PartHeadersFirst(r, k) ==
    CASE k = 1 -> r.status_line
      [] k = 2 -> r.headers
      [] k = 3 -> r.content_length
      [] k = 4 -> AsBytes(r.body)
Part(r, k) ==
    CASE k = 1 -> r.status_line
      [] k = 2 -> r.content_length
      [] k = 3 -> r.headers
      [] k = 4 -> AsBytes(r.body)

NoResponse == [status |-> 0, body |-> <<>>, status_line |-> <<>>,
               content_length |-> <<>>, headers |-> <<>>]
Response(status, body) ==
    [status |-> status, body |-> body, status_line |-> StatusLine(status),
     content_length |-> ContentLengthLine(body), headers |-> Headers(status, body)]

\* main.rs:163-179: status and body built from the interpreter's result
\* (variant: a non-zero exit code reported as a 500)
ExecutionResponseByExitCode(out) ==
    IF out.ok /\ out.code = 0
    THEN [status |-> 200, body |-> FromUtf8Lossy(out.stdout)]
    ELSE [status |-> 500, body |-> FailedToExecute \o out.err]
ExecutionResponse(out) ==
    IF out.ok
    THEN LET stdout == FromUtf8Lossy(out.stdout)
             stderr == FromUtf8Lossy(out.stderr)
         IN IF stderr # <<>>
            THEN [status |-> 200, body |-> Concat(<<ErrorLabel, stderr, OutputLabel, stdout>>)]
            ELSE [status |-> 200, body |-> stdout]
    ELSE [status |-> 500, body |-> FailedToExecute \o out.err]

\* main.rs:89: the value the header line sets content_length to
\* (variant: unwrap_or(1))
DeclaredLengthDefaultOne(line) ==
    LET parsed == ParseUsize(Trim(SplitNth1(line).val))
    IN IF parsed.ok THEN parsed.val ELSE 1
DeclaredLength(line) ==
    LET parsed == ParseUsize(Trim(SplitNth1(line).val))
    IN IF parsed.ok THEN parsed.val ELSE 0

\* main.rs:88
IsContentLength(line) == StartsWith(ToLowercase(line), ContentLengthKey)

----------------------------------------------------------------------------
(* Bounds and inputs                                                       *)

MaxConns == 2
MaxHeaders == 2
MaxTextLen == 3

\* what read_line can return for the request line: a line with its
\* terminator, or the empty string at end of stream
LineGetRoot == <<"G", "E", "T", " ", "/", " ", "H", "T", "T", "P", "/", "1", ".", "1", "\r", "\n">>
LineGetRootPadded ==
    <<" ", " ", "G", "E", "T", " ", "/", " ", "H", "T", "T", "P", "/", "1", ".", "1",
      "\r", "\n">>
LineGetRootHttp10 == <<"G", "E", "T", " ", "/", " ", "H", "T", "T", "P", "/", "1", ".", "0", "\r", "\n">>
LineGetMissing ==
    <<"G", "E", "T", " ", "/", "m", "i", "s", "s", "i", "n", "g", " ", "H", "T", "T",
      "P", "/", "1", ".", "1", "\r", "\n">>
LinePost ==
    <<"P", "O", "S", "T", " ", "/", "a", "p", "i", "/", "i", "n", "t", "e", "r", "p",
      "r", "e", "t", "e", "r", " ", "H", "T", "T", "P", "/", "1", ".", "1", "\r", "\n">>
LinePostHttp10 ==
    <<"P", "O", "S", "T", " ", "/", "a", "p", "i", "/", "i", "n", "t", "e", "r", "p",
      "r", "e", "t", "e", "r", " ", "H", "T", "T", "P", "/", "1", ".", "0", "\r", "\n">>
BodyPrint ==
    <<"{", "\"", "c", "o", "m", "m", "a", "n", "d", "\"", ":", " ", "\"", "p", "r", "i",
      "n", "t", "(", "1", "+", "1", ")", "\"", "}">>
BodyColon ==
    <<"{", "\"", "c", "o", "m", "m", "a", "n", "d", "\"", ":", " ", "\"", "a", ":", "b",
      "\"", "}">>
BodyEmptyCommand == <<"{", "\"", "c", "o", "m", "m", "a", "n", "d", "\"", ":", " ", "\"", "\"", "}">>
BodyBareToken == <<"{", "\"", "c", "o", "m", "m", "a", "n", "d", "\"", ":", " ", "1", "}">>
BodyLoneQuote == <<"{", "\"", "c", "o", "m", "m", "a", "n", "d", "\"", ":", "\"", "}">>
BodyNotJson == <<"n", "o", "t", "-", "j", "s", "o", "n">>
BodyEmptyObject == <<"{", "}">>
BodyWrongKey == <<"{", "\"", "c", "m", "d", "\"", ":", " ", "\"", "a", "\"", "}">>
BodyNoClosingBrace == <<"{", "\"", "c", "o", "m", "m", "a", "n", "d", "\"", ":", " ", "\"", "a", "\"">>
HeaderContentLength == <<"C", "o", "n", "t", "e", "n", "t", "-", "L", "e", "n", "g", "t", "h">>
HeaderContentLengthUpper == <<"C", "O", "N", "T", "E", "N", "T", "-", "L", "E", "N", "G", "T", "H">>
HeaderHost == <<"H", "o", "s", "t">>
OutTwo == <<"2", "\n">>
OutDoctype == <<"<", "!", "D", "O", "C", "T", "Y", "P", "E", " ", "h", "t", "m", "l", ">">>
ErrTraceback == <<"N", "a", "m", "e", "E", "r", "r", "o", "r", "\n">>
LaunchNotFound ==
    <<"N", "o", " ", "s", "u", "c", "h", " ", "f", "i", "l", "e", " ", "o", "r", " ",
      "d", "i", "r", "e", "c", "t", "o", "r", "y", " ", "(", "o", "s", " ", "e", "r",
      "r", "o", "r", " ", "2", ")">>
RoundTripOpen == <<"{", "\"", "c", "o", "m", "m", "a", "n", "d", "\"", ":", " ", "\"">>
RoundTripClose == <<"\"", "}">>
KeyOpen == <<"{", "\"", "c", "o", "m", "m", "a", "n", "d", "\"", ":">>

EndOfStream == <<>>
RequestLines == {LineGetRoot, LineGetRootPadded, LineGetRootHttp10, LineGetMissing,
                 LinePost, LinePostHttp10, EndOfStream}

RequestBodies == {BodyPrint, BodyColon, BodyEmptyCommand, BodyBareToken, BodyLoneQuote,
                  BodyNotJson, BodyEmptyObject, BodyWrongKey, BodyNoClosingBrace}
MaxDeclared == Max({Len(b) : b \in RequestBodies}) + 1

HeaderNames == {HeaderContentLength, HeaderContentLengthUpper, HeaderHost}
HeaderValues ==
    {<<" ">> \o FormatUsize(n) : n \in 0..MaxDeclared}
    \cup {<<>>, <<" ", "a", "b", "c">>, <<" ", "+", "2">>, <<" ", "2", ":", "9">>,
          <<" ", "-", "1">>, <<"8">>}
HeaderLines == {Concat(<<n, <<":">>, v, CRLF>>) : n \in HeaderNames, v \in HeaderValues}

\* what Command::output can return: the exit code and the captured pipes, or
\* a launch error
PythonResults ==
    {[ok |-> TRUE, code |-> c, stdout |-> o, stderr |-> e, err |-> <<>>] :
        c \in {0, 1},
        o \in {<<>>, OutTwo, OutDoctype, <<"0xC3", "0xA9">>, <<"a", "0xFF">>},
        e \in {<<>>, ErrTraceback}}
    \cup {[ok |-> FALSE, code |-> 0, stdout |-> <<>>, stderr |-> <<>>, err |-> LaunchNotFound]}

\* bodies for the extractor alone: every text of at most MaxTextLen characters
\* over Alphabet, bare, as the value of the key, and as a quoted value
Alphabet == {"{", "}", "\"", ":", " ", "a"}
Texts == UNION {[1..n -> Alphabet] : n \in 0..MaxTextLen}
ExtractorBodies ==
    (Texts \ {<<>>})
    \cup {Concat(<<KeyOpen, t, <<"}">>>>) : t \in Texts}
    \cup {Concat(<<RoundTripOpen, t, RoundTripClose>>) : t \in Texts}
    \cup {Concat(<<<<" ", "{", " ">>, CommandKey, t, <<"}", "\n">>>>) : t \in Texts}

----------------------------------------------------------------------------
(* The program                                                             *)

NoFile == [exists |-> FALSE, content |-> <<>>]
NoHeader == [seen |-> FALSE, text |-> <<>>]
NoOutput == [called |-> FALSE, ok |-> FALSE, code |-> 0, stdout |-> <<>>, stderr |-> <<>>,
             err |-> <<>>]

\* per-connection state at the top of handle_connection (main.rs:41-43)
Fresh(rl, cl, ch, nh, bf, ex, wr, la, ca, re, wi, sr, ro, hd, st) ==
    /\ rl = <<>>
    /\ cl = 0
    /\ ch = NoHeader
    /\ nh = 0
    /\ bf = <<>>
    /\ ex = NotCalled
    /\ wr = FALSE
    /\ la = FALSE
    /\ ca = 0
    /\ re = NoResponse
    /\ wi = <<>>
    /\ sr = "none"
    /\ ro = "none"
    /\ hd = FALSE
    /\ st = "open"

Init ==
    /\ pc = "accept"
    /\ conns = 0
    /\ exitCause = "none"
    /\ scratch = NoFile
    /\ scratchAtAccept = NoFile
    /\ output = NoOutput
    /\ fsFailed = "none"
    /\ runs = 0
    /\ Fresh(request_line, content_length, clHeader, nHeaders, buffer, extracted, wrote,
             launched, calls, resp, wire, sendResult, route, headersDone, stream)

\* send_response(&mut stream, status, body)?: the call, up to its first write
\* (main.rs:186-203)
CallSendResponse(status, body) ==
    /\ calls' = calls + 1
    /\ resp' = Response(status, body)
    /\ wire' = <<>>
    /\ sendResult' = "none"
    /\ pc' = "send"

\* main.rs:28: the thread is in listener.incoming(), between two connections
\* (variant: connections also taken while an interpreter runs, as a threaded
\* server would)
IdleOrBlocked == pc \in {"accept", "blocked"}
Idle == pc = "accept"

\* main.rs:28-29: listener.incoming() yields a connection
Accept ==
    /\ Idle
    /\ conns < MaxConns
    /\ pc' = "read_request_line"
    /\ conns' = conns + 1
    /\ scratchAtAccept' = scratch
    /\ Fresh(request_line', content_length', clHeader', nHeaders', buffer', extracted',
             wrote', launched', calls', resp', wire', sendResult', route', headersDone',
             stream')
    /\ output' = NoOutput
    /\ fsFailed' = "none"
    /\ runs' = 0
    /\ UNCHANGED <<exitCause, scratch>>

\* main.rs:29: `stream?` on an accept error returns from main
AcceptFails ==
    /\ Idle
    /\ conns < MaxConns
    /\ pc' = "exited"
    /\ exitCause' = "accept_error"
    /\ UNCHANGED <<conns, request_line, content_length, clHeader, nHeaders, buffer,
                   extracted, scratch, wrote, launched, calls, resp, wire, sendResult,
                   route, headersDone, stream, scratchAtAccept, output, fsFailed, runs>>

\* main.rs:46-75: read the request line and route on it
ReadRequestLine ==
    /\ pc = "read_request_line"
    /\ \/ \* read_line is Err (I/O error, invalid UTF-8)
          /\ stream' = "error"
          /\ route' = "read_error"
          /\ CallSendResponse(500, InternalServerError)
          /\ UNCHANGED request_line
       \/ \E line \in RequestLines :
            /\ stream' = IF line = EndOfStream THEN "eof" ELSE "open"
            /\ request_line' = Trim(line)
            /\ IF StartsWith(request_line', GetPrefix)
               THEN route' = "static" /\ CallSendResponse(200, html)
               ELSE IF ~StartsWith(request_line', PostPrefix)
               THEN route' = "not_found" /\ CallSendResponse(404, NotFound)
               ELSE /\ route' = "interpreter"
                    /\ pc' = "read_headers"
                    /\ UNCHANGED <<calls, resp, wire, sendResult>>
    /\ UNCHANGED <<conns, exitCause, content_length, clHeader, nHeaders, buffer,
                   extracted, scratch, wrote, launched, headersDone, scratchAtAccept, output, fsFailed, runs>>

\* main.rs:79-93: one iteration of the header loop
ReadHeader ==
    /\ pc = "read_headers"
    /\ \/ \* read_line is Err
          /\ stream' = "error"
          /\ CallSendResponse(500, InternalServerError)
          /\ UNCHANGED <<content_length, clHeader, nHeaders, headersDone>>
       \/ \* a blank line, or the empty string at end of stream: break
          \E line \in {CRLF, EndOfStream} :
            /\ stream' = IF line = EndOfStream THEN "eof" ELSE "open"
            /\ headersDone' = TRUE
            /\ pc' = "read_body"
            /\ UNCHANGED <<content_length, clHeader, nHeaders, calls, resp, wire, sendResult>>
       \/ \E line \in HeaderLines :
            /\ nHeaders < MaxHeaders
            /\ nHeaders' = nHeaders + 1
            /\ IF IsContentLength(line)
               THEN /\ content_length' = DeclaredLength(line)
                    /\ clHeader' = [seen |-> TRUE,
                                    text |-> SubSeq(line, Find(line, ":") + 2, Len(line))]
               ELSE UNCHANGED <<content_length, clHeader>>
            /\ UNCHANGED <<pc, stream, headersDone, calls, resp, wire, sendResult>>
    /\ UNCHANGED <<conns, exitCause, request_line, buffer, extracted, scratch, wrote,
                   launched, route, scratchAtAccept, output, fsFailed, runs>>

\* main.rs:96
HasBody(n) == n > 0

\* main.rs:97-98: read_exact into a buffer of n bytes, from a peer that sends
\* `sent` and closes: Err when fewer than n bytes arrive
\* (variant: Read::read, which returns what has arrived)
ReadAvailable(sent, n) ==
    [ok |-> TRUE, buf |-> SubSeq(sent, 1, IF Len(sent) < n THEN Len(sent) ELSE n)]
ReadExact(sent, n) ==
    IF Len(sent) < n
    THEN [ok |-> FALSE, buf |-> <<>>]
    ELSE [ok |-> TRUE, buf |-> SubSeq(sent, 1, n)]

\* main.rs:96-108: read exactly content_length bytes, or answer 400 for none
ReadBody ==
    /\ pc = "read_body"
    /\ IF HasBody(content_length)
       THEN \/ \* read_exact is Err on an I/O error
               /\ stream' = "error"
               /\ CallSendResponse(500, InternalServerError)
               /\ UNCHANGED buffer
            \/ \* the peer sends `sent` and closes
               \E sent \in IF stream = "eof" THEN {<<>>} ELSE RequestBodies \cup {<<>>} :
                 IF ~ReadExact(sent, content_length).ok
                 THEN /\ stream' = "eof"
                      /\ CallSendResponse(500, InternalServerError)
                      /\ UNCHANGED buffer
                 ELSE /\ buffer' = ReadExact(sent, content_length).buf
                      /\ pc' = "extract"
                      /\ UNCHANGED <<stream, calls, resp, wire, sendResult>>
       ELSE /\ CallSendResponse(400, MissingBody)
            /\ UNCHANGED <<buffer, stream>>
    /\ UNCHANGED <<conns, exitCause, request_line, content_length, clHeader, nHeaders,
                   extracted, scratch, wrote, launched, route, headersDone, scratchAtAccept, output, fsFailed, runs>>

\* main.rs:110-124: decode the body and extract the command
Extract ==
    /\ pc = "extract"
    /\ extracted' = ExtractCommand(FromUtf8Lossy(buffer))
    /\ CASE extracted'.tag = "Some" ->
              /\ pc' = "create_dir"
              /\ UNCHANGED <<exitCause, calls, resp, wire, sendResult>>
         [] extracted'.tag = "None" ->
              /\ CallSendResponse(400, InvalidJson)
              /\ UNCHANGED exitCause
         [] OTHER -> \* the panic unwinds out of main: the process ends
              /\ pc' = "panicked"
              /\ exitCause' = "panic"
              /\ UNCHANGED <<calls, resp, wire, sendResult>>
    /\ UNCHANGED <<conns, request_line, content_length, clHeader, nHeaders, buffer,
                   scratch, wrote, launched, route, headersDone, stream, scratchAtAccept, output, fsFailed, runs>>

\* main.rs:127-134: fs::create_dir_all(<temp>/fpb)
CreateDir ==
    /\ pc = "create_dir"
    /\ \/ /\ pc' = "create_file"
          /\ UNCHANGED <<calls, resp, wire, sendResult, fsFailed>>
       \/ /\ fsFailed' = "create_dir"
          /\ CallSendResponse(500, InternalServerError)
    /\ UNCHANGED <<conns, exitCause, request_line, content_length, clHeader, nHeaders,
                   buffer, extracted, scratch, wrote, launched, route, headersDone,
                   stream, scratchAtAccept, output, runs>>

\* main.rs:140: the content of the file File::create returns: it truncates
\* (variant: the old content kept, as a file opened without truncation)
CreatedContentKept(old) == old
CreatedContent(old) == <<>>

\* main.rs:148: write_all at offset 0 of the file as it stands
Overwrite(old, bytes) == bytes \o SubSeq(old, Len(bytes) + 1, Len(old))

\* main.rs:136-147: File::create truncates the scratch file
\* (variant: the interpreter is run on the file as created, the write skipped)
CreateFileThenRun ==
    /\ pc = "create_file"
    /\ \/ /\ scratch' = [exists |-> TRUE, content |-> CreatedContent(scratch.content)]
          /\ pc' = "run"
          /\ UNCHANGED <<calls, resp, wire, sendResult, fsFailed>>
       \/ /\ fsFailed' = "create_file"
          /\ CallSendResponse(500, InternalServerError)
          /\ UNCHANGED scratch
    /\ UNCHANGED <<conns, exitCause, request_line, content_length, clHeader, nHeaders,
                   buffer, extracted, wrote, launched, route, headersDone, stream,
                   scratchAtAccept, output, runs>>
CreateFile ==
    /\ pc = "create_file"
    /\ \/ /\ scratch' = [exists |-> TRUE, content |-> CreatedContent(scratch.content)]
          /\ pc' = "write_file"
          /\ UNCHANGED <<calls, resp, wire, sendResult, fsFailed>>
       \/ /\ fsFailed' = "create_file"
          /\ CallSendResponse(500, InternalServerError)
          /\ UNCHANGED scratch
    /\ UNCHANGED <<conns, exitCause, request_line, content_length, clHeader, nHeaders,
                   buffer, extracted, wrote, launched, route, headersDone, stream,
                   scratchAtAccept, output, runs>>

\* main.rs:148-153: file.write_all(command.as_bytes()); a failed write may
\* leave any proper prefix of the bytes in the file
\* (variant: the failure is logged and the handler goes on to the interpreter)
WriteFileIgnoresError ==
    /\ pc = "write_file"
    /\ LET bytes == AsBytes(extracted.val)
       IN \/ /\ scratch' = [exists |-> TRUE, content |-> Overwrite(scratch.content, bytes)]
             /\ wrote' = TRUE
             /\ UNCHANGED fsFailed
          \/ \E n \in 0..(Len(bytes) - 1) :
               /\ scratch' = [exists |-> TRUE,
                              content |-> Overwrite(scratch.content, SubSeq(bytes, 1, n))]
               /\ fsFailed' = "write_file"
               /\ UNCHANGED wrote
    /\ pc' = "run"
    /\ UNCHANGED <<conns, exitCause, request_line, content_length, clHeader, nHeaders,
                   buffer, extracted, launched, route, headersDone, stream, scratchAtAccept,
                   output, runs, calls, resp, wire, sendResult>>
WriteFile ==
    /\ pc = "write_file"
    /\ LET bytes == AsBytes(extracted.val)
       IN \/ /\ scratch' = [exists |-> TRUE, content |-> Overwrite(scratch.content, bytes)]
             /\ wrote' = TRUE
             /\ pc' = "run"
             /\ UNCHANGED <<calls, resp, wire, sendResult, fsFailed>>
          \/ \E n \in 0..(Len(bytes) - 1) :
               /\ scratch' = [exists |-> TRUE,
                              content |-> Overwrite(scratch.content, SubSeq(bytes, 1, n))]
               /\ fsFailed' = "write_file"
               /\ CallSendResponse(500, InternalServerError)
               /\ UNCHANGED wrote
    /\ UNCHANGED <<conns, exitCause, request_line, content_length, clHeader, nHeaders,
                   buffer, extracted, launched, route, headersDone, stream, scratchAtAccept,
                   output, runs>>

\* main.rs:157-183: run the interpreter on the scratch file and answer
RunPython ==
    /\ pc = "run"
    /\ runs' = runs + 1
    /\ \/ \E out \in PythonResults :
            /\ launched' = out.ok
            /\ output' = [called |-> TRUE, ok |-> out.ok, code |-> out.code,
                          stdout |-> out.stdout, stderr |-> out.stderr, err |-> out.err]
            /\ CallSendResponse(ExecutionResponse(out).status, ExecutionResponse(out).body)
       \/ \* the interpreter never exits: output() never returns (no timeout)
          /\ launched' = TRUE
          /\ pc' = "blocked"
          /\ UNCHANGED <<output, calls, resp, wire, sendResult>>
    /\ UNCHANGED <<conns, exitCause, request_line, content_length, clHeader, nHeaders,
                   buffer, extracted, scratch, wrote, route, headersDone, stream,
                   scratchAtAccept, fsFailed>>

\* main.rs:205-222: the next write_all of send_response succeeds; after the
\* fourth, send_response and handle_connection return Ok
WritePart ==
    /\ pc = "send"
    /\ wire' = Append(wire, Part(resp, Len(wire) + 1))
    /\ IF Len(wire') = 4
       THEN sendResult' = "Ok" /\ pc' = "accept"
       ELSE UNCHANGED <<sendResult, pc>>
    /\ UNCHANGED <<conns, exitCause, request_line, content_length, clHeader, nHeaders,
                   buffer, extracted, scratch, wrote, launched, calls, resp, route,
                   headersDone, stream, scratchAtAccept, output, fsFailed, runs>>

\* main.rs:205-220, 30-32: the next write_all fails; send_response returns the
\* error, `?` returns it from handle_connection and main logs it
WriteFails ==
    /\ pc = "send"
    /\ sendResult' = "Err"
    /\ pc' = "accept"
    /\ UNCHANGED <<conns, exitCause, request_line, content_length, clHeader, nHeaders,
                   buffer, extracted, scratch, wrote, launched, calls, resp, wire, route,
                   headersDone, stream, scratchAtAccept, output, fsFailed, runs>>

Next ==
    \/ Accept
    \/ AcceptFails
    \/ ReadRequestLine
    \/ ReadHeader
    \/ ReadBody
    \/ Extract
    \/ CreateDir
    \/ CreateFile
    \/ WriteFile
    \/ RunPython
    \/ WritePart
    \/ WriteFails

Spec == Init /\ [][Next]_vars

\* The extractor alone: a request whose body has been read in full
\* (main.rs:110), for every body of ExtractorBodies
InitExtract ==
    /\ pc = "extract"
    /\ conns = 1
    /\ exitCause = "none"
    /\ request_line = Trim(LinePost)
    /\ buffer \in {AsBytes(b) : b \in ExtractorBodies}
    /\ content_length = Len(buffer)
    /\ clHeader = [seen |-> TRUE, text |-> Concat(<<<<" ">>, FormatUsize(content_length), CRLF>>)]
    /\ nHeaders = 1
    /\ extracted = NotCalled
    /\ scratch = NoFile
    /\ scratchAtAccept = NoFile
    /\ wrote = FALSE
    /\ launched = FALSE
    /\ calls = 0
    /\ resp = NoResponse
    /\ wire = <<>>
    /\ sendResult = "none"
    /\ route = "interpreter"
    /\ headersDone = TRUE
    /\ stream = "open"
    /\ output = NoOutput
    /\ fsFailed = "none"
    /\ runs = 0

SpecExtract == InitExtract /\ [][Extract]_vars

\* send_response alone: a call with any of these statuses and bodies
\* (main.rs:186), then its writes
SendStatuses == {200, 201, 400, 404, 500}
SendBodies == {<<>>, html, OutDoctype, NotFound, <<"U+00E9">>, OutTwo \o OutDoctype}
InitSend ==
    /\ pc = "send"
    /\ conns = 1
    /\ exitCause = "none"
    /\ scratch = NoFile
    /\ scratchAtAccept = NoFile
    /\ output = NoOutput
    /\ fsFailed = "none"
    /\ runs = 0
    /\ request_line = <<>>
    /\ content_length = 0
    /\ clHeader = NoHeader
    /\ nHeaders = 0
    /\ buffer = <<>>
    /\ extracted = NotCalled
    /\ wrote = FALSE
    /\ launched = FALSE
    /\ route = "none"
    /\ headersDone = FALSE
    /\ stream = "open"
    /\ calls = 1
    /\ \E status \in SendStatuses, body \in SendBodies : resp = Response(status, body)
    /\ wire = <<>>
    /\ sendResult = "none"

NextSend ==
    \/ WritePart
    \/ WriteFails

SpecSend == InitSend /\ [][NextSend]_vars

----------------------------------------------------------------------------
(* Properties                                                              *)

\* the connection of this state has been dropped: handle_connection returned,
\* or a panic unwound through it
Dropped == conns > 0 /\ pc \in {"accept", "panicked"}
PlainHeaders == ContentTypePlain \o CRLF
HtmlHeaders == ContentTypeHtml \o CRLF
Range(s) == {s[i] : i \in 1..Len(s)}

\* C1: by the time a connection is dropped, handle_connection has called
\* send_response exactly once on it.
C1ExactlyOneResponse == Dropped => calls = 1

\* C2: whatever a connection meets, the process ends only because accept
\* itself failed.
C2OnlyAcceptEndsProcess == exitCause \in {"none", "accept_error"}

\* C3: for every body, extract_command returns a command or no command; it
\* never panics.
C3ExtractNeverPanics == extracted.tag \in {"NotCalled", "None", "Some"}

GetRootAnyVersion == <<"G", "E", "T", " ", "/", " ">>
PostInterpreterAnyVersion ==
    <<"P", "O", "S", "T", " ", "/", "a", "p", "i", "/", "i", "n", "t", "e", "r", "p",
      "r", "e", "t", "e", "r", " ">>

\* C4: a request line starting with `GET / ` is answered 200 with the static
\* page as html, one starting with `POST /api/interpreter ` enters the
\* interpreter pipeline, and every other request line is answered 404 as
\* plain text.
C4RoutingByPrefix ==
    route \in {"static", "not_found", "interpreter"} =>
        IF StartsWith(request_line, GetRootAnyVersion)
        THEN route = "static" /\ resp.status = 200 /\ resp.body = html
             /\ resp.headers = HtmlHeaders
        ELSE IF StartsWith(request_line, PostInterpreterAnyVersion)
        THEN route = "interpreter"
        ELSE route = "not_found" /\ resp.status = 404 /\ resp.headers = PlainHeaders

\* C5: a connection on which a read failed or met the end of the stream
\* (request line, header block or body) is answered with a 500.
C5ReadFailureGives500 ==
    (Dropped /\ stream # "open") => (calls = 1 /\ resp.status = 500)

\* C6: in every response written in full, the number in the Content-Length
\* header is the number of body bytes written after the blank line.
C6ContentLengthIsBodyLength ==
    Len(wire) = 4 =>
        /\ StartsWith(wire[2], ContentLengthLabel)
        /\ EndsWith(wire[2], CRLF)
        /\ ParseUsize(SubSeq(wire[2], Len(ContentLengthLabel) + 1, Len(wire[2]) - 2))
             = [ok |-> TRUE, val |-> Len(wire[4])]
C6Witness ==
    /\ Len(wire) = 4
    /\ launched
    /\ "0xEF" \in Range(wire[4])
    /\ resp.status = 200

\* C7: once the interpreter has been launched, the response is 200 with
\* content-type text/plain, whatever it wrote.
C7ExecutionIsPlain200 ==
    (launched /\ calls = 1) => (resp.status = 200 /\ resp.headers = PlainHeaders)

\* the last content-length header of the request declares no body: there is
\* none, or its value is 0 or does not parse
DeclaresNoBody ==
    \/ ~clHeader.seen
    \/ LET text == clHeader.text
           colon == Find(text, ":")
           field == IF colon = -1 THEN text ELSE SubSeq(text, 1, colon)
           parsed == ParseUsize(Trim(field))
       IN ~parsed.ok \/ parsed.val = 0

Recognizable(body) ==
    LET t == Trim(body)
    IN /\ Len(t) >= 2
       /\ t[1] = "{"
       /\ t[Len(t)] = "}"
       /\ StartsWith(Trim(SubSeq(t, 2, Len(t) - 1)), CommandKey)

\* C9: a body that is not of the expected shape yields no command, and a
\* request whose body yields no command is answered 400 without the scratch
\* file being written or the interpreter launched.
C9UnrecognizableGives400 ==
    extracted.tag # "NotCalled" =>
        /\ ~Recognizable(FromUtf8Lossy(buffer)) => extracted.tag = "None"
        /\ extracted.tag = "None" =>
             /\ calls = 1
             /\ resp.status = 400
             /\ ~wrote
             /\ ~launched
             /\ scratch = scratchAtAccept
C9Witness ==
    /\ buffer = BodyNotJson
    /\ extracted.tag = "None"
    /\ sendResult = "Ok"
    /\ resp.status = 400

\* C10: for every X without a double quote or a brace, extract_command on
\* {"command": "X"} returns exactly X.
C10RoundTrip ==
    \A x \in Texts :
        ( /\ Range(x) \cap {"\"", "{", "}"} = {}
          /\ FromUtf8Lossy(buffer) = Concat(<<RoundTripOpen, x, RoundTripClose>>)
          /\ extracted.tag # "NotCalled" )
        => extracted = Some(x)
C10Witness ==
    /\ buffer = Concat(<<RoundTripOpen, <<" ", ":", " ">>, RoundTripClose>>)
    /\ extracted = Some(<<" ", ":", " ">>)

ClaimErrorPrefix == <<"E", "r", "r", "o", "r", ":", " ">>
ClaimOutputPrefix == <<"O", "u", "t", "p", "u", "t", ":", " ">>

\* C11: when the interpreter was launched the status is 200 whatever its
\* exit code; the body is its standard output when its standard error is
\* empty, and otherwise `Error: `, standard error, a newline, `Output: `,
\* standard output.
C11LaunchedBody ==
    (output.called /\ output.ok) =>
        LET stdout == FromUtf8Lossy(output.stdout)
            stderr == FromUtf8Lossy(output.stderr)
        IN /\ calls = 1
           /\ resp.status = 200
           /\ resp.body = IF stderr = <<>> THEN stdout
                          ELSE ClaimErrorPrefix \o stderr \o <<"\n">> \o ClaimOutputPrefix
                               \o stdout
C11Witness ==
    /\ output.called
    /\ output.ok
    /\ output.code = 1
    /\ output.stderr = ErrTraceback
    /\ output.stdout = <<>>
    /\ resp.status = 200
    /\ sendResult = "Ok"

\* C12: when creating the scratch directory, creating the scratch file or
\* writing the command fails, the response is 500 and the interpreter is not
\* run for the request; when the interpreter cannot be launched, the response
\* is 500 with the launch error text in its body.
C12FailuresGive500 ==
    /\ fsFailed # "none" =>
         /\ calls = 1
         /\ resp.status = 500
         /\ runs = 0
         /\ ~launched
    /\ (output.called /\ ~output.ok) =>
         /\ calls = 1
         /\ resp.status = 500
         /\ Contains(resp.body, output.err)
C12Witness ==
    /\ fsFailed = "write_file"
    /\ resp.status = 500
    /\ sendResult = "Ok"

\* the stream ended before the declared number of body bytes had arrived
BodyCutShort ==
    /\ headersDone
    /\ content_length > 0
    /\ stream = "eof"
    /\ pc # "read_body"

\* C13: extract_command is called only on a body of exactly content_length
\* bytes; when the stream ends before that many bytes arrive the request is
\* abandoned: no extraction, no scratch file write, no interpreter run.
C13ExtractionNeedsFullBody ==
    /\ extracted.tag # "NotCalled" =>
         /\ content_length > 0
         /\ Len(buffer) = content_length
         /\ stream = "open"
    /\ BodyCutShort =>
         /\ extracted.tag = "NotCalled"
         /\ ~wrote
         /\ runs = 0
         /\ scratch = scratchAtAccept
C13Witness ==
    /\ BodyCutShort
    /\ clHeader.seen
    /\ resp.status = 500
    /\ sendResult = "Ok"

\* C14: whenever the interpreter is run, on any connection of the sequence,
\* the scratch file holds exactly the bytes of the command extracted from the
\* request being processed.
C14ScratchIsCurrentCommand ==
    (pc \in {"run", "blocked"} \/ runs >= 1) =>
        /\ extracted.tag = "Some"
        /\ wrote
        /\ scratch = [exists |-> TRUE, content |-> AsBytes(extracted.val)]
C14Witness ==
    /\ conns = 2
    /\ runs = 1
    /\ output.called
    /\ scratchAtAccept.exists
    /\ Len(scratchAtAccept.content) > Len(scratch.content)
    /\ scratch.content = AsBytes(extracted.val)

\* C15: a connection is accepted only when the handling of the one before it
\* has ended, and once an interpreter run blocks without ending, the thread
\* stays in it: no connection is accepted and no response is sent after that.
C15OneAtATime ==
    [][ /\ conns' # conns =>
             /\ pc = "accept"
             /\ conns > 0 => sendResult \in {"Ok", "Err"}
        /\ pc = "blocked" =>
             /\ pc' = "blocked"
             /\ conns' = conns
             /\ calls' = calls
             /\ wire' = wire ]_vars
C15Witness ==
    /\ pc = "blocked"
    /\ conns < MaxConns
    /\ calls = 0

\* C16: after a content-length header line, the declared length is the whole
\* remainder of that line parsed as an unsigned integer, or 0 when the
\* remainder does not parse; the last such line decides.
C16WholeRemainderParsed ==
    clHeader.seen =>
        LET parsed == ParseUsize(Trim(clHeader.text))
        IN content_length = IF parsed.ok THEN parsed.val ELSE 0

ClaimDoctype == <<"<", "!", "D", "O", "C", "T", "Y", "P", "E", " ", "h", "t", "m", "l">>

\* C17: send_response announces text/html exactly when the status is 200 and
\* the body contains `<!DOCTYPE html`, and text/plain for every other
\* status and body.
C17ContentTypeChoice ==
    calls >= 1 =>
        LET expected == IF resp.status = 200 /\ Contains(resp.body, ClaimDoctype)
                        THEN HtmlHeaders ELSE PlainHeaders
        IN /\ resp.headers = expected
           /\ Len(wire) >= 3 => wire[3] = expected
C17Witness ==
    /\ resp.status = 404
    /\ Contains(resp.body, ClaimDoctype)
    /\ Len(wire) = 4
    /\ wire[3] = PlainHeaders

\* what the socket has received is a prefix of: status line, Content-Length
\* line, content-type line and blank line, body
WireInOrder(w, r, result) ==
    /\ Len(w) <= 4
    /\ Len(w) >= 1 => StartsWith(w[1], Http11) /\ EndsWith(w[1], CRLF)
    /\ Len(w) >= 2 => StartsWith(w[2], ContentLengthLabel) /\ EndsWith(w[2], CRLF)
    /\ Len(w) >= 3 => w[3] \in {HtmlHeaders, PlainHeaders}
    /\ Len(w) = 4 => w[4] = AsBytes(r.body)
    /\ result = "Ok" => Len(w) = 4
    /\ result = "Err" => Len(w) < 4

\* C18: send_response writes status line, Content-Length, content type and
\* blank line, body, in that order, one part per write; when a write fails
\* the call returns the error at once: nothing further is written and
\* nothing is tried again.
C18WriteOrder ==
    [][ /\ WireInOrder(wire', resp', sendResult')
        /\ pc = "send" =>
             \/ /\ sendResult' = "Err"
                /\ wire' = wire
                /\ pc' # "send"
             \/ /\ sendResult' \in {"none", "Ok"}
                /\ Len(wire') = Len(wire) + 1
                /\ SubSeq(wire', 1, Len(wire)) = wire
        /\ (pc # "send" /\ calls' = calls) => wire' = wire ]_vars
C18Witness ==
    /\ sendResult = "Err"
    /\ Len(wire) = 2
    /\ pc # "send"

ClaimStatusLine(code) ==
    CASE code = 200 -> <<"H","T","T","P","/","1",".","1"," ","2","0","0"," ","O","K","\r","\n">>
      [] code = 400 -> <<"H","T","T","P","/","1",".","1"," ","4","0","0"," ",
                         "B","a","d"," ","R","e","q","u","e","s","t","\r","\n">>
      [] code = 404 -> <<"H","T","T","P","/","1",".","1"," ","4","0","4"," ",
                         "N","o","t"," ","F","o","u","n","d","\r","\n">>
      [] code = 500 -> <<"H","T","T","P","/","1",".","1"," ","5","0","0"," ",
                         "I","n","t","e","r","n","a","l"," ","S","e","r","v","e","r"," ",
                         "E","r","r","o","r","\r","\n">>

\* C19: every response of every connection has a status in {200, 400, 404,
\* 500} and the reason phrase fixed for it: OK, Bad Request, Not Found,
\* Internal Server Error.
C19StatusAndReason ==
    calls >= 1 =>
        /\ resp.status \in {200, 400, 404, 500}
        /\ resp.status_line = ClaimStatusLine(resp.status)
        /\ Len(wire) >= 1 => wire[1] = ClaimStatusLine(resp.status)
C19Witness ==
    /\ calls = 1
    /\ resp.status = 404
    /\ Len(wire) = 4
    /\ wire[1] = ClaimStatusLine(404)

\* the connection was answered without reaching the command: the page, 404,
\* 400, or 500 for a body that could not be read
AnsweredBeforeCommand ==
    /\ calls >= 1
    /\ \/ route = "static"
       \/ resp.status \in {400, 404}
       \/ resp.status = 500 /\ extracted = NotCalled

\* C20: per connection the interpreter is launched at most once and only
\* after the scratch file was written in full in that connection; a
\* connection answered with the page, 404, 400 or a read failure leaves the
\* scratch file as it was and launches nothing.
C20LaunchOnlyAfterWrite ==
    /\ runs <= 1
    /\ (runs >= 1 \/ launched) =>
          /\ wrote
          /\ fsFailed = "none"
          /\ extracted.tag = "Some"
          /\ scratch = [exists |-> TRUE, content |-> AsBytes(extracted.val)]
    /\ AnsweredBeforeCommand =>
          /\ runs = 0
          /\ ~launched
          /\ scratch = scratchAtAccept
C20Witness ==
    /\ conns = MaxConns
    /\ runs = 1
    /\ launched
    /\ wrote
    /\ scratch # scratchAtAccept
    /\ scratchAtAccept.exists

====
